---- MODULE Spec2Model ----
(***************************************************************************)
(* backend-api: verification sessions (services/verification.py), the      *)
(* trust score (services/trust_score.py, api/routes/trust_score.py) and    *)
(* the OTP service (services/otp.py), the token refresh                    *)
(* (api/routes/auth.py) and the credential and connection routes           *)
(* (api/routes/credentials.py, api/routes/connections.py).                 *)
(*                                                                         *)
(* The store holds the committed rows of verification_sessions and         *)
(* verification_steps.  Every service call is a coroutine: each            *)
(* `await session.execute(...)` reads the committed rows and each          *)
(* `await session.commit()` writes them, and other calls may run between   *)
(* two awaits.  A call in flight is a record of the bag `reqs`; its `pc`   *)
(* is the await it is suspended at.  A select returns the rows as they are *)
(* committed at that moment (read committed); a commit writes the columns  *)
(* whose assigned value differs from the one loaded.                       *)
(*                                                                         *)
(* Spec        : verification calls interleave at every await.             *)
(* SpecSeq     : one verification call at a time.                          *)
(* SpecAgg     : update_session_status alone, over every combination of    *)
(*               step statuses and previous session status.                *)
(* SpecTwice   : one call at a time, then one submission twice in a row.   *)
(* SpecRace    : one call at a time, then a front and a back document      *)
(*               submission interleaved at every await.                    *)
(* SpecWeights : the weighted total on drawn sub-scores.                   *)
(* SpecTrust   : the trust-score endpoint on drawn stores.                 *)
(* SpecOtp     : request_otp and verify_otp interleaved at every await on  *)
(*               Redis.                                                    *)
(* SpecRefresh : logins and refresh_tokens calls interleaved at every      *)
(*               await.                                                    *)
(* SpecCredentials : share_credential and revoke_credential on drawn       *)
(*               stores, interleaved at every await.                       *)
(* SpecConnections : approve_connection and deny_connection on drawn       *)
(*               stores, interleaved at every await.                       *)
(***************************************************************************)
EXTENDS Integers, FiniteSets, Sequences, Bags, TLC

VARIABLES
    sessions,   \* session id -> committed row of the session with its step rows
    reqs,       \* bag of the service calls in flight
    submitted,  \* number of step submissions accepted so far
    forced,     \* ids of the sessions whose status submit_session has assigned
    last,       \* what the call that returned in the step just taken returned
    scenario,   \* the pair of submissions a caller is making, when it makes one
    connections, \* committed rows of the connections table
    credentials, \* committed rows of the credentials table
    trust,      \* what the trust-score endpoint answered last
    redis,      \* the keys otp:<identifier>, otp_rate:<identifier>, share:<id>
    otp_reqs,   \* bag of the OTP service calls in flight
    otp_log,    \* OTP calls begun, per stored OTP the verifications it passed, and
                \* per identifier the requests its present rate counter has let pass
    otp_last,   \* what the OTP call that returned in the step just taken returned
    tokens,     \* jti -> committed row of the refresh_tokens table
    auth_reqs,  \* bag of the refresh_tokens calls in flight
    auth_log,   \* per jti, the refreshes that succeeded with it
    auth_last,  \* what the auth route that returned in the step just taken returned
    route_reqs, \* bag of the credential and connection route calls in flight
    route_last, \* what the route that returned in the step just taken returned
    route_log   \* ids for which revoke_credential has answered success

\* the OTP service (services/otp.py)
otp_vars == <<redis, otp_reqs, otp_log, otp_last>>

\* the token refresh (api/routes/auth.py)
auth_vars == <<tokens, auth_reqs, auth_log, auth_last>>

\* the calls of the credential and connection routes
route_vars == <<route_reqs, route_last, route_log>>

api_vars == <<auth_vars, route_vars>>

\* the state no call of the verification service writes
elsewhere == <<scenario, connections, credentials, trust, otp_vars, api_vars>>

vars == <<sessions, reqs, submitted, forced, last, elsewhere>>

----------------------------------------------------------------------------
(* Bounds *)

MaxSessions == 1
MaxInFlight == 2
MaxSubmissions == 5

\* the OTP service calls the model follows
MaxRequests == 6

\* sessions in a store drawn for the identity score
MaxProfiles == 2

\* rows of one kind in a store drawn for the activity score
MaxRows == 4

\* largest of the small sub-scores drawn for the weighted total
MaxSubScore == 12

----------------------------------------------------------------------------
(* db/models/verification.py *)

PENDING == "pending"
IN_PROGRESS == "in_progress"
COMPLETED == "completed"
FAILED == "failed"

VerificationStatus == {PENDING, IN_PROGRESS, COMPLETED, FAILED}

LIVENESS == "Liveness Check"
DOCUMENT_FRONT == "Document (Front)"
DOCUMENT_BACK == "Document (Back)"
FACE_MATCH == "Face Match"
DIGILOCKER == "DigiLocker"

VerificationStepName ==
    {LIVENESS, DOCUMENT_FRONT, DOCUMENT_BACK, FACE_MATCH, DIGILOCKER}

\* score: Mapped[Optional[int]], None until a submission sets it
NoScore == -1

\* Mock scores written by the submissions
LivenessScore == 95
DocumentScore == 90
FaceMatchScore == 88
DigiLockerScore == 100

----------------------------------------------------------------------------
(* Inputs *)

\* caller ids; "" is the empty user id
UserIds == {"", "u1", "u2"}

\* the users that create sessions
OwnerIds == {"u1"}

\* ids uuid4 hands out, in the order it hands them out
SessionIds == 1..MaxSessions

\* ids a caller may name: the stored ones and one that is never stored
RequestedIds == 0..MaxSessions

DocumentTypes == {"front", "back", "passport"}

----------------------------------------------------------------------------
(* Rows *)

VerificationStep(status, score) == [status |-> status, score |-> score]

\* create_verification_session with the last entry of `steps` left out
create_steps_without_digilocker ==
    {LIVENESS, DOCUMENT_FRONT, DOCUMENT_BACK, FACE_MATCH}

\* the `steps` list of create_verification_session
create_steps == {LIVENESS, DOCUMENT_FRONT, DOCUMENT_BACK, FACE_MATCH, DIGILOCKER}

VerificationSession(user_id, step_names) ==
    [user_id |-> user_id,
     status  |-> PENDING,
     steps   |-> [n \in step_names |-> VerificationStep(PENDING, NoScore)]]

----------------------------------------------------------------------------
(* Responses and calls in flight *)

\* what the service call that returned in the step just taken returned
NoResponse == [op |-> "none", sid |-> 0, user_id |-> "", result |-> "none"]

Response(op, sid, user_id, result) ==
    [op |-> op, sid |-> sid, user_id |-> user_id, result |-> result]

Call(op, sid, user_id, pc, step, front, target) ==
    [op |-> op, sid |-> sid, user_id |-> user_id, pc |-> pc, step |-> step,
     front |-> front, target |-> target]

InFlight == BagCardinality(reqs)

Quiescent == reqs = EmptyBag

Calls == BagToSet(reqs)

Suspend(r, r2) == reqs' = (reqs (-) SetToBag({r})) (+) SetToBag({r2})

Return(r) == reqs' = reqs (-) SetToBag({r})

At(r, pc) == [r EXCEPT !.pc = pc]

----------------------------------------------------------------------------
(* get_verification_session: the row with this id, filtered by owner only  *)
(* when user_id is truthy                                                  *)

get_verification_session(ss, session_id, user_id) ==
    /\ session_id \in DOMAIN ss
    /\ (user_id # "" => ss[session_id].user_id = user_id)

(* A select of one step row through the request's AsyncSession: the status *)
(* the row has as committed at the time of the select                      *)

select_step_status(ss, session_id, step_name) ==
    ss[session_id].steps[step_name].status

\* update_step_status adding the score to the one the row holds
update_step_status_accumulating(ss, session_id, step_name, status, score) ==
    IF session_id \in DOMAIN ss /\ step_name \in DOMAIN ss[session_id].steps
    THEN [ss EXCEPT ![session_id].steps[step_name] =
             [status |-> status,
              score  |-> IF score = NoScore THEN @.score
                         ELSE IF @.score = NoScore THEN score
                         ELSE @.score + score]]
    ELSE ss

\* update_step_status storing a completion scored under 90 as Failed
update_step_status_failing_low_score(ss, session_id, step_name, status, score) ==
    IF session_id \in DOMAIN ss /\ step_name \in DOMAIN ss[session_id].steps
    THEN [ss EXCEPT ![session_id].steps[step_name] =
             [status |-> IF score # NoScore /\ score < 90 THEN FAILED ELSE status,
              score  |-> IF score # NoScore THEN score ELSE @.score]]
    ELSE ss

(* update_step_status: the step row of that name, when there is one, gets  *)
(* the status, and the score when one is given                             *)

update_step_status(ss, session_id, step_name, status, score) ==
    IF session_id \in DOMAIN ss /\ step_name \in DOMAIN ss[session_id].steps
    THEN [ss EXCEPT ![session_id].steps[step_name] =
             [status |-> status,
              score  |-> IF score # NoScore THEN score ELSE @.score]]
    ELSE ss

(* update_session_status: the status the if/elif chain assigns; the        *)
(* previous status when no branch is taken or the session has no steps     *)

\* the chain with the IN_PROGRESS test moved before the FAILED test
aggregate_in_progress_first(prev, steps) ==
    IF DOMAIN steps = {} THEN prev
    ELSE IF \E n \in DOMAIN steps : steps[n].status = IN_PROGRESS THEN IN_PROGRESS
    ELSE IF \E n \in DOMAIN steps : steps[n].status = FAILED THEN FAILED
    ELSE IF \A n \in DOMAIN steps : steps[n].status = COMPLETED THEN COMPLETED
    ELSE prev

\* the chain never leaving a Failed session
aggregate_failed_sticky(prev, steps) ==
    IF DOMAIN steps = {} \/ prev = FAILED THEN prev
    ELSE IF \E n \in DOMAIN steps : steps[n].status = FAILED THEN FAILED
    ELSE IF \A n \in DOMAIN steps : steps[n].status = COMPLETED THEN COMPLETED
    ELSE IF \E n \in DOMAIN steps : steps[n].status = IN_PROGRESS THEN IN_PROGRESS
    ELSE prev

\* the chain entering IN_PROGRESS only from PENDING
aggregate_from_pending(prev, steps) ==
    IF DOMAIN steps = {} THEN prev
    ELSE IF \E n \in DOMAIN steps : steps[n].status = FAILED THEN FAILED
    ELSE IF \A n \in DOMAIN steps : steps[n].status = COMPLETED THEN COMPLETED
    ELSE IF prev = PENDING /\ \E n \in DOMAIN steps : steps[n].status = IN_PROGRESS
         THEN IN_PROGRESS
    ELSE prev

\* the chain closed by an else branch that assigns IN_PROGRESS
aggregate_else_in_progress(prev, steps) ==
    IF DOMAIN steps = {} THEN prev
    ELSE IF \E n \in DOMAIN steps : steps[n].status = FAILED THEN FAILED
    ELSE IF \A n \in DOMAIN steps : steps[n].status = COMPLETED THEN COMPLETED
    ELSE IN_PROGRESS

aggregate(prev, steps) ==
    IF DOMAIN steps = {} THEN prev
    ELSE IF \E n \in DOMAIN steps : steps[n].status = FAILED THEN FAILED
    ELSE IF \A n \in DOMAIN steps : steps[n].status = COMPLETED THEN COMPLETED
    ELSE IF \E n \in DOMAIN steps : steps[n].status = IN_PROGRESS THEN IN_PROGRESS
    ELSE prev

\* session.commit(): the UPDATE carries the status only when the value
\* assigned differs from the one the select loaded; NoChange otherwise
NoChange == ""

net_change(loaded, assigned) ==
    IF assigned = loaded THEN NoChange ELSE assigned

\* every document type taken for the front
document_step_front_only(document_type) == DOCUMENT_FRONT

\* submit_document: document_type -> step name
document_step(document_type) ==
    IF document_type = "front" THEN DOCUMENT_FRONT ELSE DOCUMENT_BACK

\* the condition with `or` between the two documents
either_document_done(front_status, back_status) ==
    front_status = COMPLETED \/ back_status = COMPLETED

\* submit_document: the condition guarding the Face Match auto-completion
both_documents_done(front_status, back_status) ==
    front_status = COMPLETED /\ back_status = COMPLETED

\* required_steps with DigiLocker among them
required_steps_with_digilocker ==
    {LIVENESS, DOCUMENT_FRONT, DOCUMENT_BACK, FACE_MATCH, DIGILOCKER}

\* submit_session: required_steps
required_steps == {LIVENESS, DOCUMENT_FRONT, DOCUMENT_BACK, FACE_MATCH}

\* submit_session: steps_completed
steps_completed(steps) ==
    Cardinality({n \in DOMAIN steps :
                    n \in required_steps /\ steps[n].status = COMPLETED})

\* a session ready as soon as one required step is completed
ready_with_one_step(steps) ==
    steps_completed(steps) >= 1

\* submit_session: steps_completed >= len(required_steps)
ready_for_submission(steps) ==
    steps_completed(steps) >= Cardinality(required_steps)

\* the mock score each submission writes with COMPLETED
mock_score(step_name) ==
    CASE step_name = LIVENESS -> LivenessScore
      [] step_name = DIGILOCKER -> DigiLockerScore
      [] OTHER -> DocumentScore

----------------------------------------------------------------------------
(* Python float arithmetic (IEEE 754 binary64, round to nearest, ties to   *)
(* even) on the values the trust score computes with.  A double x with     *)
(* 0 < x < 256 is held exactly as the pair [n, d] over a denominator den:  *)
(*     x = (n * 2^ScaleBits + d) / (den * 2^ScaleBits)                     *)
(* n / den is the decimal value the expression means and d is what         *)
(* rounding has added to it so far.                                        *)

\* fraction bits of a binary64 significand
FractionBits == 52

\* binary digits kept below the unit of n / den
ScaleBits == 60

Double(n, d) == [n |-> n, d |-> d]

\* 2^t modulo m, for t below 64 and m below 2^15
pow2mod(t, m) ==
    LET a == t \div 3
    IN  ((((2^a % m) * (2^a % m)) % m) * (2^(t - 2 * a) % m)) % m

\* x >= 2^e
fl_at_least(den, x, e) ==
    IF e >= 0
    THEN x.n > den * 2^e \/ (x.n = den * 2^e /\ x.d >= 0)
    ELSE x.n * 2^(-e) > den \/ (x.n * 2^(-e) = den /\ x.d >= 0)

\* the binary exponent of x
fl_exponent(den, x) ==
    CHOOSE e \in -8..7 : fl_at_least(den, x, e) /\ ~fl_at_least(den, x, e + 1)

\* x = (q + rest0 / ulp) * ulp for an integer q whose parity is that of
\* q2 \div den: the multiple of ulp nearest to x, the even one at a tie
fl_nearest(den, x, ulp, q2, rest0) ==
    LET rest == rest0 % ulp
        q_odd == (q2 \div den + rest0 \div ulp) % 2 = 1
        up == 2 * rest > ulp \/ (2 * rest = ulp /\ q_odd)
    IN  Double(x.n, x.d - rest + (IF up THEN ulp ELSE 0))

\* q2 is n * 2^(FractionBits - e) modulo 2 * den
fl_split(den, x, ulp, q2) ==
    fl_nearest(den, x, ulp, q2, (ulp \div den) * (q2 % den) + x.d)

\* rounding at the exponent e: one unit in the last place is
\* 2^(e - FractionBits)
fl_round_at(den, x, e) ==
    fl_split(den, x, den * 2^(ScaleBits - FractionBits + e),
             ((x.n % (2 * den)) * pow2mod(FractionBits - e, 2 * den)) % (2 * den))

\* the double nearest to the exact value x
fl_round(den, x) ==
    IF x.n = 0 /\ x.d = 0 THEN x ELSE fl_round_at(den, x, fl_exponent(den, x))

\* the literal n/den, e.g. 0.4 as fl_literal(10, 4)
fl_literal(den, n) == fl_round(den, Double(n, 0))

\* p / den for two ints
fl_div(den, p) == fl_round(den, Double(p, 0))

\* k * x for an int k
fl_mul(den, k, x) == fl_round(den, Double(k * x.n, k * x.d))

fl_add(den, x, y) == fl_round(den, Double(x.n + y.n, x.d + y.d))

\* int(x): truncation
fl_int(den, x) == IF x.d >= 0 THEN x.n \div den ELSE (x.n - 1) \div den

----------------------------------------------------------------------------
(* services/trust_score.py *)

ACTIVE == "active"
REVOKED == "revoked"
EXPIRED == "expired"

ConnectionStatus == {PENDING, ACTIVE, REVOKED}
CredentialStatus == {ACTIVE, EXPIRED, REVOKED}

\* a row of connections or of credentials
Row(user_id, status) == [user_id |-> user_id, status |-> status]

min(a, b) == IF a <= b THEN a ELSE b

LivenessPoints == 50
DocumentPoints == 37
BiometricPoints == 13

SuggestLiveness == "Complete liveness verification to boost your identity score"
SuggestDocument == "Upload and verify your government ID document"
SuggestBiometric == "Complete face match verification for additional security"
SuggestVerifications ==
    "Complete more verification sessions to improve activity score"
SuggestConnections == "Connect more platforms to increase your activity score"
SuggestCredentials == "Add more verified credentials to your profile"
SuggestEndorsements == "Request endorsements from verified connections"
SuggestReputation == "Build your reputation through positive interactions"

\* what a calculator returns: tuple[int, list[str]]
Scored(score, suggestions) == [score |-> score, suggestions |-> suggestions]

\* the select without the test on the session status
sessions_of_user(ss, user_id) ==
    {s \in DOMAIN ss : ss[s].user_id = user_id}

\* calculate_identity_score: the select of the user's completed sessions
completed_sessions(ss, user_id) ==
    {s \in DOMAIN ss : ss[s].user_id = user_id /\ ss[s].status = COMPLETED}

\* `"Document" in step.name`, on the names create_verification_session stores
contains_Document(name) == name \in {DOCUMENT_FRONT, DOCUMENT_BACK}

calculate_identity_score(ss, user_id) ==
    LET completed == completed_sessions(ss, user_id)
        has_liveness ==
            \E s \in completed : \E n \in DOMAIN ss[s].steps :
                n = LIVENESS /\ ss[s].steps[n].status = COMPLETED
        has_document ==
            \E s \in completed : \E n \in DOMAIN ss[s].steps :
                contains_Document(n) /\ ss[s].steps[n].status = COMPLETED
        has_biometric ==
            \E s \in completed : \E n \in DOMAIN ss[s].steps :
                n = FACE_MATCH /\ ss[s].steps[n].status = COMPLETED
        total_points ==
            (IF has_liveness THEN LivenessPoints ELSE 0)
            + (IF has_document THEN DocumentPoints ELSE 0)
            + (IF has_biometric THEN BiometricPoints ELSE 0)
        suggestions ==
            (IF has_liveness THEN << >> ELSE <<SuggestLiveness>>)
            \o (IF has_document THEN << >> ELSE <<SuggestDocument>>)
            \o (IF has_biometric THEN << >> ELSE <<SuggestBiometric>>)
        \* int((total_points / max_points) * 100), max_points = 100
        scaled == fl_int(100, fl_mul(100, 100, fl_div(100, total_points)))
    IN  Scored(min(100, scaled), suggestions)

\* the count without the test on the connection status
connection_count_any_status(conns, user_id) ==
    Cardinality({c \in DOMAIN conns : conns[c].user_id = user_id})

\* calculate_activity_score: the count of the user's active connections
connection_count(conns, user_id) ==
    Cardinality({c \in DOMAIN conns :
                    conns[c].user_id = user_id /\ conns[c].status = ACTIVE})

calculate_activity_score(ss, conns, creds, user_id) ==
    LET verification_count ==
            Cardinality({s \in DOMAIN ss : ss[s].user_id = user_id})
        credential_count ==
            Cardinality({c \in DOMAIN creds : creds[c].user_id = user_id})
        total_points ==
            min(30, verification_count * 10)
            + min(40, connection_count(conns, user_id) * 10)
            + min(30, credential_count * 10)
        suggestions ==
            (IF verification_count < 3 THEN <<SuggestVerifications>> ELSE << >>)
            \o (IF connection_count(conns, user_id) < 4
                THEN <<SuggestConnections>> ELSE << >>)
            \o (IF credential_count < 3 THEN <<SuggestCredentials>> ELSE << >>)
    IN  Scored(min(100, total_points), suggestions)

\* the calculator without the placeholder for feedback
calculate_reputation_score_base(user_id) ==
    Scored(min(100, 50 + 30), <<SuggestEndorsements, SuggestReputation>>)

calculate_reputation_score(user_id) ==
    Scored(min(100, 50 + 30 + 20), <<SuggestEndorsements, SuggestReputation>>)

\* the weights applied to whole tenths, reputation taken off
weighted_total_penalising(identity_score, activity_score, reputation_score) ==
    (4 * identity_score + 3 * activity_score - 3 * reputation_score) \div 10

\* calculate_trust_score:
\* int((identity_score * 0.4) + (activity_score * 0.3) + (reputation_score * 0.3))
weighted_total(identity_score, activity_score, reputation_score) ==
    fl_int(10,
        fl_add(10,
            fl_add(10, fl_mul(10, identity_score, fl_literal(10, 4)),
                       fl_mul(10, activity_score, fl_literal(10, 3))),
            fl_mul(10, reputation_score, fl_literal(10, 3))))

get_score_label(score) ==
    IF score >= 90 THEN "Outstanding"
    ELSE IF score >= 75 THEN "Excellent"
    ELSE IF score >= 60 THEN "Good"
    ELSE IF score >= 40 THEN "Fair"
    ELSE "Poor"

\* all_suggestions[:5]
top_five_suggestions(all_suggestions) ==
    SubSeq(all_suggestions, 1, min(5, Len(all_suggestions)))

\* all_suggestions[:3]
top_suggestions(all_suggestions) ==
    SubSeq(all_suggestions, 1, min(3, Len(all_suggestions)))

TrustScoreBreakdown(identity, activity, reputation) ==
    [identity |-> identity, activity |-> activity, reputation |-> reputation]

\* TrustScoreResult, with what each calculator returned
calculate_trust_score(ss, conns, creds, user_id) ==
    LET identity == calculate_identity_score(ss, user_id)
        activity == calculate_activity_score(ss, conns, creds, user_id)
        reputation == calculate_reputation_score(user_id)
        total_score == weighted_total(identity.score, activity.score,
                                      reputation.score)
    IN  [score       |-> total_score,
         breakdown   |-> TrustScoreBreakdown(identity.score, activity.score,
                                             reputation.score),
         label       |-> get_score_label(total_score),
         suggestions |-> top_suggestions(identity.suggestions
                             \o activity.suggestions \o reputation.suggestions),
         identity    |-> identity,
         activity    |-> activity,
         reputation  |-> reputation]

\* api/routes/trust_score.py: the user every route names
get_mock_user_id == "u1"

NoScored == Scored(0, << >>)

NoParts == [identity |-> NoScored, activity |-> NoScored, reputation |-> NoScored]

\* TrustScoreResponse with the HTTP status, whether calculate_trust_score
\* raised, and what each calculator returned when it did not
TrustScoreResponse(status, raised, score, breakdown, suggestions, parts) ==
    [status |-> status, raised |-> raised, score |-> score,
     breakdown |-> breakdown, suggestions |-> suggestions,
     identity |-> parts.identity, activity |-> parts.activity,
     reputation |-> parts.reputation]

NoTrustScore ==
    TrustScoreResponse(0, FALSE, 0, TrustScoreBreakdown(0, 0, 0), << >>,
                       NoParts)

\* the exception leaving the handler: FastAPI answers 500
trust_score_reraise ==
    TrustScoreResponse(500, TRUE, 0, TrustScoreBreakdown(0, 0, 0), << >>,
                       NoParts)

\* get_trust_score: the except branch
trust_score_fallback ==
    TrustScoreResponse(200, TRUE, 78, TrustScoreBreakdown(85, 70, 80),
        <<"Complete DigiLocker verification to boost identity score",
          "Connect more platforms to improve activity score",
          "Request endorsements from verified connections">>,
        NoParts)

----------------------------------------------------------------------------
(* services/otp.py *)

Identifiers == {"a@x.io"}

\* generate_otp: "123456" in mock mode, six random digits otherwise
OtpCodes == {"123456", "654321"}

\* the codes a caller may submit
SubmittedCodes == OtpCodes \cup {"000000"}

\* check_rate_limit: limit
RateLimit == 5

\* the value of otp:<identifier>: the code and, for the record, the number
\* of the store_otp that wrote it; NoOtp when the key does not exist
StoredOtp(code, serial) == [code |-> code, serial |-> serial]

NoOtp == StoredOtp("", 0)

\* the value of otp_rate:<identifier> and whether the key has an expiry;
\* NoCounter when the key does not exist
Counter(count, ttl) == [count |-> count, ttl |-> ttl]

NoCounter == Counter(0, FALSE)

NoOtpResponse == [op |-> "none", identifier |-> "", result |-> "none"]

OtpResponse(op, identifier, result) ==
    [op |-> op, identifier |-> identifier, result |-> result]

OtpCall(op, identifier, pc, stored) ==
    [op |-> op, identifier |-> identifier, pc |-> pc, stored |-> stored]

OtpCalls == BagToSet(otp_reqs)

InitOtp ==
    /\ redis = [otp   |-> [i \in Identifiers |-> NoOtp],
                rate  |-> [i \in Identifiers |-> NoCounter],
                share |-> << >>]
    /\ otp_reqs = EmptyBag
    /\ otp_log = [started  |-> 0,
                  accepted |-> << >>,
                  granted  |-> [i \in Identifiers |-> 0]]
    /\ otp_last = NoOtpResponse

----------------------------------------------------------------------------
(* api/routes/auth.py, core/security.py, db/models/token.py: refresh      *)
(* tokens.  A JWT is its claims with a signature; only the server signs.   *)

\* the refresh_tokens rows the model follows
MaxTokens == 4

\* the users get_or_create_user has stored; no route deletes a user
Users == {"u1", "u2"}

\* a row of refresh_tokens as create_tokens adds it (revoked defaults False)
RefreshToken(user_id) == [user_id |-> user_id, revoked |-> FALSE]

\* payload.get("jti") of a payload without the claim
NoJti == 0

\* what decode_token returns for a token jwt.decode rejects
NoPayload == [type |-> "none", sub |-> "", jti |-> NoJti]

jwt_encode(claims) == [claims |-> claims, signature |-> "valid"]

\* a token not signed with jwt_secret_key
forged(claims) == [claims |-> claims, signature |-> "invalid"]

create_access_token(sub) ==
    jwt_encode([type |-> "access", sub |-> sub, jti |-> NoJti])

create_refresh_token(sub, jti) ==
    jwt_encode([type |-> "refresh", sub |-> sub, jti |-> jti])

decode_token(token) ==
    IF token.signature = "valid" THEN token.claims ELSE NoPayload

\* create_tokens: jti = str(uuid.uuid4()), a value no row has yet
fresh_jti(tbl) == Len(tbl) + 1

\* create_tokens: the row added for the refresh token of the pair
create_tokens(tbl, user_id) == Append(tbl, RefreshToken(user_id))

\* refresh_tokens: the select on jti and revoked IS FALSE finds a row
token_record(tbl, jti) == jti \in DOMAIN tbl /\ ~tbl[jti].revoked

\* refresh_tokens: token_record.revoked = True, when the payload has a jti
revoke(tbl, jti) ==
    IF jti # NoJti /\ jti \in DOMAIN tbl
    THEN [tbl EXCEPT ![jti].revoked = TRUE] ELSE tbl

NoAuthResponse == [op |-> "none", status |-> 0, presented |-> NoJti, jti |-> NoJti]

\* the answer of an auth route: the jti presented and the jti of the refresh
\* token of the pair returned
AuthResponse(op, status, presented, jti) == [op |-> op, status |-> status, presented |-> presented, jti |-> jti]

\* a refresh_tokens call suspended at the await `pc`
RefreshCall(sub, jti, pc) == [sub |-> sub, jti |-> jti, pc |-> pc]

AuthCalls == BagToSet(auth_reqs)

InitAuth ==
    /\ tokens = << >>
    /\ auth_reqs = EmptyBag
    /\ auth_log = << >>
    /\ auth_last = NoAuthResponse

----------------------------------------------------------------------------
(* api/routes/credentials.py, api/routes/connections.py, services/sharing.py *)

\* rows of the credentials or the connections table in a drawn store
MaxStored == 2

\* share tokens the model follows
MaxShares == 2

\* the id column of the rows, in the order of the table
DbIds == <<"a1", "a2", "a3">>

\* the ids in the paths of the requests
PathIds == {"a1", "a2", "1", "3", "nonexistent"}

\* MOCK_CREDENTIALS: id -> status
MOCK_CREDENTIALS == ("1" :> ACTIVE) @@ ("2" :> ACTIVE) @@ ("3" :> EXPIRED)

\* MOCK_ACTIVE_CONNECTIONS and MOCK_PENDING_CONNECTIONS: the ids
MOCK_ACTIVE_CONNECTIONS == {"1", "2"}

MOCK_PENDING_CONNECTIONS == {"3"}

\* a row of credentials with the columns the routes read and write
Credential(user_id, status, usage_count) == [user_id |-> user_id, status |-> status, usage_count |-> usage_count]

NoRow == 0

\* select ... where id == id and user_id == user_id, scalar_one_or_none
select_row(table, id, user_id) ==
    IF \E i \in DOMAIN table : DbIds[i] = id /\ table[i].user_id = user_id
    THEN CHOOSE i \in DOMAIN table : DbIds[i] = id /\ table[i].user_id = user_id
    ELSE NoRow

\* create_share_token: the value stored under share:<share_id>
ShareToken(credential_id, user_id) == [credential_id |-> credential_id, user_id |-> user_id]

NoRouteResponse == [op |-> "none", id |-> "", status |-> 0, late |-> FALSE]

\* the answer of a route; `late` when the call began after revoke_credential
\* had answered success for the id
RouteResponse(op, id, status, late) == [op |-> op, id |-> id, status |-> status, late |-> late]

\* a route call suspended at the await `pc`, with the row it loaded
RouteCall(op, id, row, pc, loaded, late) == [op |-> op, id |-> id, row |-> row, pc |-> pc, loaded |-> loaded, late |-> late]

RouteCalls == BagToSet(route_reqs)

InitRoutes ==
    /\ route_reqs = EmptyBag
    /\ route_last = NoRouteResponse
    /\ route_log = {}

----------------------------------------------------------------------------
(* A caller making two submissions on one session: the same one twice in a *)
(* row, or a Document (Front) and a Document (Back) at the same time       *)

NoScenario ==
    [phase |-> "none", op |-> "", sid |-> 0, user_id |-> "",
     document_type |-> "", after |-> << >>]

InitElsewhere ==
    /\ scenario = NoScenario
    /\ connections = << >>
    /\ credentials = << >>
    /\ trust = NoTrustScore
    /\ InitOtp
    /\ InitAuth
    /\ InitRoutes

----------------------------------------------------------------------------
Init ==
    /\ sessions = << >>
    /\ reqs = EmptyBag
    /\ submitted = 0
    /\ forced = {}
    /\ last = NoResponse
    /\ InitElsewhere

(* create_verification_session: the session and its steps are added and    *)
(* committed in one transaction                                            *)
create_verification_session(user_id) ==
    /\ Cardinality(DOMAIN sessions) < MaxSessions
    /\ LET session_id == Cardinality(DOMAIN sessions) + 1
       IN  /\ sessions' = [s \in DOMAIN sessions \cup {session_id} |->
                              IF s = session_id
                              THEN VerificationSession(user_id, create_steps)
                              ELSE sessions[s]]
           /\ last' = Response("create_verification_session", session_id,
                               user_id, "ok")
    /\ UNCHANGED <<reqs, submitted, forced, elsewhere>>

(* A step submission up to its first await after the lookup: not found     *)
(* returns None at once                                                    *)
begin_step(op, session_id, user_id, step_name) ==
    /\ InFlight < MaxInFlight
    /\ submitted < MaxSubmissions
    /\ IF get_verification_session(sessions, session_id, user_id)
       THEN /\ reqs' = reqs (+) SetToBag({Call(op, session_id, user_id,
                                  "in_progress", step_name, "", NoChange)})
            /\ submitted' = submitted + 1
            /\ last' = NoResponse
       ELSE /\ last' = Response(op, session_id, user_id, "not_found")
            /\ UNCHANGED <<reqs, submitted, forced>>
    /\ UNCHANGED <<sessions, forced>>

submit_liveness(session_id, user_id) ==
    /\ begin_step("submit_liveness", session_id, user_id, LIVENESS)
    /\ UNCHANGED elsewhere

submit_document(session_id, user_id, document_type) ==
    /\ begin_step("submit_document", session_id, user_id,
                  document_step(document_type))
    /\ UNCHANGED elsewhere

connect_digilocker(session_id, user_id) ==
    /\ begin_step("connect_digilocker", session_id, user_id, DIGILOCKER)
    /\ UNCHANGED elsewhere

\* update_step_status(..., IN_PROGRESS)
mark_in_progress(r) ==
    /\ r.pc = "in_progress"
    /\ sessions' = update_step_status(sessions, r.sid, r.step, IN_PROGRESS, NoScore)
    /\ Suspend(r, At(r, "completed"))
    /\ last' = NoResponse
    /\ UNCHANGED <<submitted, forced, elsewhere>>

\* update_step_status(..., COMPLETED, score=...)
mark_completed(r) ==
    /\ r.pc = "completed"
    /\ sessions' = update_step_status(sessions, r.sid, r.step, COMPLETED,
                                      mock_score(r.step))
    /\ Suspend(r, At(r, IF r.op = "submit_document"
                        THEN "read_front" ELSE "aggregate"))
    /\ last' = NoResponse
    /\ UNCHANGED <<submitted, forced, elsewhere>>

\* submit_document: select of the Document (Front) step
read_front(r) ==
    /\ r.pc = "read_front"
    /\ Suspend(r, [r EXCEPT !.pc = "read_back",
                            !.front = select_step_status(sessions, r.sid,
                                                         DOCUMENT_FRONT)])
    /\ last' = NoResponse
    /\ UNCHANGED <<sessions, submitted, forced, elsewhere>>

\* submit_document: select of the Document (Back) step and the test
read_back(r) ==
    /\ r.pc = "read_back"
    /\ Suspend(r, [r EXCEPT !.front = "",
                            !.pc = IF both_documents_done(r.front,
                                        select_step_status(sessions, r.sid,
                                                           DOCUMENT_BACK))
                                   THEN "face_match" ELSE "aggregate"])
    /\ last' = NoResponse
    /\ UNCHANGED <<sessions, submitted, forced, elsewhere>>

\* submit_document: update_step_status(FACE_MATCH, COMPLETED, score=88)
complete_face_match(r) ==
    /\ r.pc = "face_match"
    /\ sessions' = update_step_status(sessions, r.sid, FACE_MATCH, COMPLETED,
                                      FaceMatchScore)
    /\ Suspend(r, At(r, "aggregate"))
    /\ last' = NoResponse
    /\ UNCHANGED <<submitted, forced, elsewhere>>

\* update_session_status: the select and the if/elif chain
update_session_status(r) ==
    /\ r.pc = "aggregate"
    /\ Suspend(r, [r EXCEPT !.pc = "commit",
                            !.target = net_change(sessions[r.sid].status,
                                           aggregate(sessions[r.sid].status,
                                                     sessions[r.sid].steps))])
    /\ last' = NoResponse
    /\ UNCHANGED <<sessions, submitted, forced, elsewhere>>

\* update_session_status / submit_session: commit of the assigned status
commit_status(r) ==
    /\ r.pc = "commit"
    /\ sessions' = IF r.target = NoChange THEN sessions
                   ELSE [sessions EXCEPT ![r.sid].status = r.target]
    /\ Return(r)
    /\ forced' = IF r.op = "submit_session" THEN forced \cup {r.sid} ELSE forced
    /\ last' = Response(r.op, r.sid, r.user_id, "ok")
    /\ UNCHANGED <<submitted, elsewhere>>

(* submit_session: lookup and count; not ready returns the session at once *)
submit_session(session_id, user_id) ==
    /\ InFlight < MaxInFlight
    /\ IF ~get_verification_session(sessions, session_id, user_id)
       THEN /\ last' = Response("submit_session", session_id, user_id, "not_found")
            /\ UNCHANGED reqs
       ELSE IF ready_for_submission(sessions[session_id].steps)
       THEN /\ reqs' = reqs (+) SetToBag({Call("submit_session", session_id,
                                  user_id, "commit", "", "",
                                  net_change(sessions[session_id].status,
                                             COMPLETED))})
            /\ last' = NoResponse
       ELSE /\ last' = Response("submit_session", session_id, user_id, "ok")
            /\ UNCHANGED reqs
    /\ UNCHANGED <<sessions, submitted, forced, elsewhere>>

Next ==
    \/ \E u \in OwnerIds : create_verification_session(u)
    \/ \E s \in RequestedIds, u \in UserIds : submit_liveness(s, u)
    \/ \E s \in RequestedIds, u \in UserIds, t \in DocumentTypes :
          submit_document(s, u, t)
    \/ \E s \in RequestedIds, u \in UserIds : connect_digilocker(s, u)
    \/ \E s \in RequestedIds, u \in UserIds : submit_session(s, u)
    \/ \E r \in Calls : mark_in_progress(r)
    \/ \E r \in Calls : mark_completed(r)
    \/ \E r \in Calls : read_front(r)
    \/ \E r \in Calls : read_back(r)
    \/ \E r \in Calls : complete_face_match(r)
    \/ \E r \in Calls : update_session_status(r)
    \/ \E r \in Calls : commit_status(r)

Spec == Init /\ [][Next]_vars

----------------------------------------------------------------------------
(* The service called by one caller at a time: a call begins only when     *)
(* none is in flight                                                       *)

NextSeq ==
    \/ Quiescent /\ \E u \in OwnerIds : create_verification_session(u)
    \/ Quiescent /\ \E s \in RequestedIds, u \in UserIds : submit_liveness(s, u)
    \/ Quiescent /\ \E s \in RequestedIds, u \in UserIds, t \in DocumentTypes :
          submit_document(s, u, t)
    \/ Quiescent /\ \E s \in RequestedIds, u \in UserIds : connect_digilocker(s, u)
    \/ Quiescent /\ \E s \in RequestedIds, u \in UserIds : submit_session(s, u)
    \/ \E r \in Calls : mark_in_progress(r)
    \/ \E r \in Calls : mark_completed(r)
    \/ \E r \in Calls : read_front(r)
    \/ \E r \in Calls : read_back(r)
    \/ \E r \in Calls : complete_face_match(r)
    \/ \E r \in Calls : update_session_status(r)
    \/ \E r \in Calls : commit_status(r)

SpecSeq == Init /\ [][NextSeq]_vars

----------------------------------------------------------------------------
(* update_session_status on its own: one call on a session whose step rows *)
(* and status hold any values of the VerificationStatus column             *)

InitAgg ==
    /\ \E st \in VerificationStatus,
          steps \in [VerificationStepName -> VerificationStatus] :
          sessions = (1 :> [user_id |-> "u1",
                            status  |-> st,
                            steps   |-> [n \in VerificationStepName |->
                                            VerificationStep(steps[n], NoScore)]])
    /\ reqs = SetToBag({Call("update_session_status", 1, "", "aggregate",
                             "", "", NoChange)})
    /\ submitted = 0
    /\ forced = {}
    /\ last = NoResponse
    /\ InitElsewhere

NextAgg ==
    \/ \E r \in Calls : update_session_status(r)
    \/ \E r \in Calls : commit_status(r)

SpecAgg == InitAgg /\ [][NextAgg]_vars

----------------------------------------------------------------------------
(* Two submissions on one session, from every state the service reaches    *)
(* with one call at a time                                                 *)

\* the step submissions of the claims: the handler and its document type
Submissions ==
    {<<"submit_liveness", "">>, <<"submit_document", "front">>,
     <<"submit_document", "back">>, <<"connect_digilocker", "">>}

\* the step each handler passes to update_step_status
submitted_step(op, document_type) ==
    CASE op = "submit_liveness" -> LIVENESS
      [] op = "connect_digilocker" -> DIGILOCKER
      [] OTHER -> document_step(document_type)

\* the submission past its lookup, suspended at its first update
submission(op, session_id, user_id, document_type) ==
    Call(op, session_id, user_id, "in_progress",
         submitted_step(op, document_type), "", NoChange)

other_document(document_type) ==
    IF document_type = "front" THEN "back" ELSE "front"

\* the first of two equal submissions begins
submit_first(op, session_id, user_id, document_type) ==
    /\ scenario = NoScenario
    /\ Quiescent
    /\ get_verification_session(sessions, session_id, user_id)
    /\ reqs' = SetToBag({submission(op, session_id, user_id, document_type)})
    /\ scenario' = [phase |-> "first", op |-> op, sid |-> session_id,
                    user_id |-> user_id, document_type |-> document_type,
                    after |-> << >>]
    /\ last' = NoResponse
    /\ UNCHANGED <<sessions, submitted, forced, connections, credentials,
                   trust, otp_vars, api_vars>>

\* the first has returned: the same submission begins again
submit_again ==
    /\ scenario.phase = "first"
    /\ Quiescent
    /\ reqs' = SetToBag({submission(scenario.op, scenario.sid, scenario.user_id,
                                    scenario.document_type)})
    /\ scenario' = [scenario EXCEPT !.phase = "second", !.after = sessions]
    /\ last' = NoResponse
    /\ UNCHANGED <<sessions, submitted, forced, connections, credentials,
                   trust, otp_vars, api_vars>>

NextTwice ==
    \/ scenario = NoScenario /\ Quiescent
          /\ \E u \in OwnerIds : create_verification_session(u)
    \/ scenario = NoScenario /\ Quiescent
          /\ \E s \in RequestedIds, u \in UserIds : submit_liveness(s, u)
    \/ scenario = NoScenario /\ Quiescent
          /\ \E s \in RequestedIds, u \in UserIds, t \in DocumentTypes :
                submit_document(s, u, t)
    \/ scenario = NoScenario /\ Quiescent
          /\ \E s \in RequestedIds, u \in UserIds : connect_digilocker(s, u)
    \/ scenario = NoScenario /\ Quiescent
          /\ \E s \in RequestedIds, u \in UserIds : submit_session(s, u)
    \/ \E c \in Submissions, s \in RequestedIds, u \in UserIds :
          submit_first(c[1], s, u, c[2])
    \/ submit_again
    \/ \E r \in Calls : mark_in_progress(r)
    \/ \E r \in Calls : mark_completed(r)
    \/ \E r \in Calls : read_front(r)
    \/ \E r \in Calls : read_back(r)
    \/ \E r \in Calls : complete_face_match(r)
    \/ \E r \in Calls : update_session_status(r)
    \/ \E r \in Calls : commit_status(r)

SpecTwice == Init /\ [][NextTwice]_vars

\* one of the two document submissions begins
race_first(session_id, user_id, document_type) ==
    /\ scenario = NoScenario
    /\ Quiescent
    /\ get_verification_session(sessions, session_id, user_id)
    /\ reqs' = SetToBag({submission("submit_document", session_id, user_id,
                                    document_type)})
    /\ scenario' = [phase |-> "racing", op |-> "submit_document",
                    sid |-> session_id, user_id |-> user_id,
                    document_type |-> document_type, after |-> << >>]
    /\ last' = NoResponse
    /\ UNCHANGED <<sessions, submitted, forced, connections, credentials,
                   trust, otp_vars, api_vars>>

\* the submission of the other document begins, at any await of the first
race_second ==
    /\ scenario.phase = "racing"
    /\ reqs' = reqs (+) SetToBag({submission("submit_document", scenario.sid,
                                    scenario.user_id,
                                    other_document(scenario.document_type))})
    /\ scenario' = [scenario EXCEPT !.phase = "raced"]
    /\ last' = NoResponse
    /\ UNCHANGED <<sessions, submitted, forced, connections, credentials,
                   trust, otp_vars, api_vars>>

NextRace ==
    \/ scenario = NoScenario /\ Quiescent
          /\ \E u \in OwnerIds : create_verification_session(u)
    \/ scenario = NoScenario /\ Quiescent
          /\ \E s \in RequestedIds, u \in UserIds : submit_liveness(s, u)
    \/ scenario = NoScenario /\ Quiescent
          /\ \E s \in RequestedIds, u \in UserIds, t \in DocumentTypes :
                submit_document(s, u, t)
    \/ scenario = NoScenario /\ Quiescent
          /\ \E s \in RequestedIds, u \in UserIds : connect_digilocker(s, u)
    \/ scenario = NoScenario /\ Quiescent
          /\ \E s \in RequestedIds, u \in UserIds : submit_session(s, u)
    \/ \E s \in RequestedIds, u \in UserIds, t \in {"front", "back"} :
          race_first(s, u, t)
    \/ race_second
    \/ \E r \in Calls : mark_in_progress(r)
    \/ \E r \in Calls : mark_completed(r)
    \/ \E r \in Calls : read_front(r)
    \/ \E r \in Calls : read_back(r)
    \/ \E r \in Calls : complete_face_match(r)
    \/ \E r \in Calls : update_session_status(r)
    \/ \E r \in Calls : commit_status(r)

SpecRace == Init /\ [][NextRace]_vars

----------------------------------------------------------------------------
(* The weighted total of calculate_trust_score on sub-scores of 0..100     *)

SubScores == (0..MaxSubScore) \cup {100}

InitWeights ==
    /\ sessions = << >>
    /\ reqs = EmptyBag
    /\ submitted = 0
    /\ forced = {}
    /\ last = NoResponse
    /\ scenario = NoScenario
    /\ connections = << >>
    /\ credentials = << >>
    /\ InitOtp
    /\ InitAuth
    /\ InitRoutes
    /\ \E identity \in SubScores, activity \in SubScores, reputation \in SubScores :
          trust = [NoTrustScore EXCEPT
                      !.breakdown = TrustScoreBreakdown(identity, activity,
                                                        reputation)]

\* calculate_trust_score from the three sub-scores on: the weighted total
weigh ==
    /\ trust.status = 0
    /\ trust' = [trust EXCEPT
                    !.status = 200,
                    !.score = weighted_total(trust.breakdown.identity,
                                             trust.breakdown.activity,
                                             trust.breakdown.reputation)]
    /\ UNCHANGED <<sessions, reqs, submitted, forced, last, scenario,
                   connections, credentials, otp_vars, api_vars>>

NextWeights == weigh

SpecWeights == InitWeights /\ [][NextWeights]_vars

----------------------------------------------------------------------------
(* The trust-score endpoint on a store that no other request writes        *)

\* a stored session with the steps of `completed_steps` completed
StoredSession(user_id, status, completed_steps) ==
    [user_id |-> user_id,
     status  |-> status,
     steps   |-> [n \in create_steps |->
                     IF n \in completed_steps
                     THEN VerificationStep(COMPLETED,
                              IF n = FACE_MATCH THEN FaceMatchScore
                              ELSE mock_score(n))
                     ELSE VerificationStep(PENDING, NoScore)]]

CompletedStepSets ==
    SUBSET {LIVENESS, DOCUMENT_FRONT, FACE_MATCH}
        \cup {{DOCUMENT_BACK}, {DIGILOCKER}, create_steps}

\* sessions of the user in progress or completed, and the completed session
\* of another user
SessionProfiles ==
    {StoredSession("u1", st, c) :
        st \in {IN_PROGRESS, COMPLETED}, c \in CompletedStepSets}
    \cup {StoredSession("u2", COMPLETED, create_steps)}

Rows(n, row) == [i \in 1..n |-> row]

\* stores for the activity score: n sessions of the user behind one session
\* of either user
SessionTables ==
    {first \o Rows(n, VerificationSession("u1", create_steps)) :
        first \in {<< >>,
                   <<StoredSession("u1", COMPLETED, create_steps)>>,
                   <<StoredSession("u1", COMPLETED, {LIVENESS})>>,
                   <<StoredSession("u2", COMPLETED, create_steps)>>},
        n \in 0..MaxRows}

ConnectionTables ==
    {Rows(n, Row("u1", ACTIVE)) \o other :
        n \in 0..(MaxRows + 1),
        other \in {<< >>, <<Row("u1", PENDING)>>, <<Row("u1", REVOKED)>>,
                   <<Row("u2", ACTIVE)>>}}

CredentialTables ==
    {Rows(n, Row("u1", st)) \o other :
        n \in 0..MaxRows, st \in CredentialStatus,
        other \in {<< >>, <<Row("u2", ACTIVE)>>}}

InitTrust ==
    /\ reqs = EmptyBag
    /\ submitted = 0
    /\ forced = {}
    /\ last = NoResponse
    /\ scenario = NoScenario
    /\ trust = NoTrustScore
    /\ InitOtp
    /\ InitAuth
    /\ InitRoutes
    /\ \/ /\ \E n \in 0..MaxProfiles : sessions \in [1..n -> SessionProfiles]
          /\ connections = << >>
          /\ credentials = << >>
       \/ /\ sessions \in SessionTables
          /\ connections \in ConnectionTables
          /\ credentials \in CredentialTables

\* get_trust_score: the response built from the result
trust_score_response(result) ==
    TrustScoreResponse(200, FALSE, result.score, result.breakdown,
                       result.suggestions, result)

(* get_trust_score: the result of calculate_trust_score, or the fallback   *)
(* when a statement of the calculation raises                              *)
get_trust_score(raises) ==
    /\ trust' =
          IF raises THEN trust_score_fallback
          ELSE trust_score_response(
                   calculate_trust_score(sessions, connections, credentials,
                                         get_mock_user_id))
    /\ UNCHANGED <<sessions, reqs, submitted, forced, last, scenario,
                   connections, credentials, otp_vars, api_vars>>

NextTrust == \E raises \in BOOLEAN : get_trust_score(raises)

SpecTrust == InitTrust /\ [][NextTrust]_vars

----------------------------------------------------------------------------
(* The OTP service: request_otp and verify_otp calls interleave at every   *)
(* await on Redis, and a key with an expiry may expire at any time         *)

verification_vars == <<sessions, reqs, submitted, forced, last, scenario>>

(* request_otp up to the GET of check_rate_limit: refused when the counter *)
(* has reached the limit                                                   *)
request_otp(identifier) ==
    /\ BagCardinality(otp_reqs) < MaxInFlight
    /\ otp_log.started < MaxRequests
    /\ otp_log' = [otp_log EXCEPT !.started = @ + 1]
    /\ LET current == redis.rate[identifier]
       IN  IF current = NoCounter
           THEN /\ otp_reqs' = otp_reqs (+) SetToBag({OtpCall("request_otp",
                                   identifier, "setex", NoOtp)})
                /\ otp_last' = NoOtpResponse
           ELSE IF current.count >= RateLimit
           THEN /\ otp_last' = OtpResponse("request_otp", identifier, "None")
                /\ UNCHANGED otp_reqs
           ELSE /\ otp_reqs' = otp_reqs (+) SetToBag({OtpCall("request_otp",
                                   identifier, "incr", NoOtp)})
                /\ otp_last' = NoOtpResponse
    /\ UNCHANGED <<redis, verification_vars, connections, credentials, trust,
                   api_vars>>

\* check_rate_limit: client.setex(key, window, 1)
rate_setex(r) ==
    /\ r.pc = "setex"
    /\ redis' = [redis EXCEPT !.rate[r.identifier] = Counter(1, TRUE)]
    /\ otp_log' = [otp_log EXCEPT !.granted[r.identifier] = 1]
    /\ otp_reqs' = (otp_reqs (-) SetToBag({r}))
                       (+) SetToBag({[r EXCEPT !.pc = "store"]})
    /\ otp_last' = NoOtpResponse
    /\ UNCHANGED <<verification_vars, connections, credentials, trust,
                   api_vars>>

\* check_rate_limit: client.incr(key); INCR of a missing key sets it to 1
\* and gives it no expiry
rate_incr(r) ==
    /\ r.pc = "incr"
    /\ redis' = [redis EXCEPT !.rate[r.identifier] =
                    IF @ = NoCounter THEN Counter(1, FALSE)
                    ELSE Counter(@.count + 1, @.ttl)]
    /\ otp_log' = [otp_log EXCEPT !.granted[r.identifier] =
                      IF redis.rate[r.identifier] = NoCounter THEN 1 ELSE @ + 1]
    /\ otp_reqs' = (otp_reqs (-) SetToBag({r}))
                       (+) SetToBag({[r EXCEPT !.pc = "store"]})
    /\ otp_last' = NoOtpResponse
    /\ UNCHANGED <<verification_vars, connections, credentials, trust,
                   api_vars>>

\* request_otp: generate_otp, store_otp and the send, which succeeds
store_otp(r, otp) ==
    /\ r.pc = "store"
    /\ redis' = [redis EXCEPT !.otp[r.identifier] =
                    StoredOtp(otp, Len(otp_log.accepted) + 1)]
    /\ otp_log' = [otp_log EXCEPT !.accepted = Append(@, 0)]
    /\ otp_reqs' = otp_reqs (-) SetToBag({r})
    /\ otp_last' = OtpResponse("request_otp", r.identifier, otp)
    /\ UNCHANGED <<verification_vars, connections, credentials, trust,
                   api_vars>>

(* verify_otp up to the GET and the comparison: False when the key does    *)
(* not exist or holds another code                                         *)
verify_otp(identifier, otp) ==
    /\ BagCardinality(otp_reqs) < MaxInFlight
    /\ otp_log.started < MaxRequests
    /\ otp_log' = [otp_log EXCEPT !.started = @ + 1]
    /\ LET stored_otp == redis.otp[identifier]
       IN  IF stored_otp # NoOtp /\ stored_otp.code = otp
           THEN /\ otp_reqs' = otp_reqs (+) SetToBag({OtpCall("verify_otp",
                                   identifier, "delete", stored_otp)})
                /\ otp_last' = NoOtpResponse
           ELSE /\ otp_last' = OtpResponse("verify_otp", identifier, "False")
                /\ UNCHANGED otp_reqs
    /\ UNCHANGED <<redis, verification_vars, connections, credentials, trust,
                   api_vars>>

\* verify_otp: client.delete(key) and return True
delete_otp(r) ==
    /\ r.pc = "delete"
    /\ redis' = [redis EXCEPT !.otp[r.identifier] = NoOtp]
    /\ otp_log' = [otp_log EXCEPT !.accepted[r.stored.serial] = @ + 1]
    /\ otp_reqs' = otp_reqs (-) SetToBag({r})
    /\ otp_last' = OtpResponse("verify_otp", r.identifier, "True")
    /\ UNCHANGED <<verification_vars, connections, credentials, trust,
                   api_vars>>

\* OTP_EXPIRY_SECONDS after the setex the key otp:<identifier> is gone
expire_otp(identifier) ==
    /\ redis.otp[identifier] # NoOtp
    /\ redis' = [redis EXCEPT !.otp[identifier] = NoOtp]
    /\ otp_last' = NoOtpResponse
    /\ UNCHANGED <<otp_reqs, otp_log, verification_vars, connections,
                   credentials, trust, api_vars>>

\* `window` seconds after the setex the key otp_rate:<identifier> is gone
expire_rate(identifier) ==
    /\ redis.rate[identifier] # NoCounter
    /\ redis.rate[identifier].ttl
    /\ redis' = [redis EXCEPT !.rate[identifier] = NoCounter]
    /\ otp_log' = [otp_log EXCEPT !.granted[identifier] = 0]
    /\ otp_last' = NoOtpResponse
    /\ UNCHANGED <<otp_reqs, verification_vars, connections,
                   credentials, trust, api_vars>>

NextOtp ==
    \/ \E i \in Identifiers : request_otp(i)
    \/ \E r \in OtpCalls : rate_setex(r)
    \/ \E r \in OtpCalls : rate_incr(r)
    \/ \E r \in OtpCalls, otp \in OtpCodes : store_otp(r, otp)
    \/ \E i \in Identifiers, otp \in SubmittedCodes : verify_otp(i, otp)
    \/ \E r \in OtpCalls : delete_otp(r)
    \/ \E i \in Identifiers : expire_otp(i)
    \/ \E i \in Identifiers : expire_rate(i)

SpecOtp == Init /\ [][NextOtp]_vars

----------------------------------------------------------------------------
(* The auth routes: logins and refresh_tokens calls interleave at every    *)
(* await on the database.  A select sees the committed rows; the change a  *)
(* call has made to a loaded row reaches the table with its commit.        *)

not_auth_vars == <<sessions, reqs, submitted, forced, last, scenario, connections, credentials, trust, otp_vars, route_vars>>

\* verify_email, verify_phone, google_login: create_tokens for the user
login(user_id) ==
    /\ Len(tokens) + BagCardinality(auth_reqs) < MaxTokens
    /\ tokens' = create_tokens(tokens, user_id)
    /\ auth_log' = Append(auth_log, 0)
    /\ auth_last' = AuthResponse("login", 200, NoJti, fresh_jti(tokens))
    /\ UNCHANGED <<auth_reqs, not_auth_vars>>

(* refresh_tokens up to the select of the token row: 401 for a token that  *)
(* does not decode or is not a refresh token, 401 when no unrevoked row    *)
(* has the jti                                                             *)
refresh_tokens(token) ==
    /\ BagCardinality(auth_reqs) < MaxInFlight
    /\ Len(tokens) + BagCardinality(auth_reqs) < MaxTokens
    /\ LET payload == decode_token(token)
       IN  IF payload = NoPayload \/ payload.type # "refresh"
           THEN /\ auth_last' = AuthResponse("refresh_tokens", 401, NoJti, NoJti)
                /\ UNCHANGED auth_reqs
           ELSE IF payload.jti # NoJti /\ ~token_record(tokens, payload.jti)
           THEN /\ auth_last' = AuthResponse("refresh_tokens", 401, payload.jti, NoJti)
                /\ UNCHANGED auth_reqs
           ELSE /\ auth_reqs' = auth_reqs (+) SetToBag({RefreshCall(payload.sub, payload.jti, "user")})
                /\ auth_last' = NoAuthResponse
    /\ UNCHANGED <<tokens, auth_log, not_auth_vars>>

\* refresh_tokens: the select of the user; 401 when there is none
select_user(r) ==
    /\ r.pc = "user"
    /\ IF r.sub \in Users
       THEN /\ auth_reqs' = (auth_reqs (-) SetToBag({r})) (+) SetToBag({[r EXCEPT !.pc = "commit"]})
            /\ auth_last' = NoAuthResponse
       ELSE /\ auth_reqs' = auth_reqs (-) SetToBag({r})
            /\ auth_last' = AuthResponse("refresh_tokens", 401, r.jti, NoJti)
    /\ UNCHANGED <<tokens, auth_log, not_auth_vars>>

(* refresh_tokens: the commit of create_tokens writes revoked = True on    *)
(* the row loaded and adds the row of the new refresh token                *)
commit_tokens(r) ==
    /\ r.pc = "commit"
    /\ tokens' = create_tokens(revoke(tokens, r.jti), r.sub)
    /\ auth_log' = Append(IF r.jti \in DOMAIN auth_log THEN [auth_log EXCEPT ![r.jti] = @ + 1] ELSE auth_log, 0)
    /\ auth_reqs' = auth_reqs (-) SetToBag({r})
    /\ auth_last' = AuthResponse("refresh_tokens", 200, r.jti, fresh_jti(tokens))
    /\ UNCHANGED not_auth_vars

\* the tokens the server has issued, and tokens it has not signed
IssuedTokens ==
    {create_refresh_token(tokens[j].user_id, j) : j \in DOMAIN tokens}
    \cup {create_access_token(tokens[j].user_id) : j \in DOMAIN tokens}

ForgedTokens ==
    {forged([type |-> "refresh", sub |-> u, jti |-> j]) : u \in Users, j \in {NoJti, 1}}

NextRefresh ==
    \/ \E u \in Users : login(u)
    \/ \E t \in IssuedTokens \cup ForgedTokens : refresh_tokens(t)
    \/ \E r \in AuthCalls : select_user(r)
    \/ \E r \in AuthCalls : commit_tokens(r)

SpecRefresh == Init /\ [][NextRefresh]_vars

----------------------------------------------------------------------------
(* The credential routes on a drawn credentials table: share_credential    *)
(* and revoke_credential calls interleave at every await                   *)

not_route_vars == <<sessions, reqs, submitted, forced, last, scenario, trust, otp_reqs, otp_log, otp_last, auth_vars>>

route_suspend(r) == route_reqs' = route_reqs (+) SetToBag({r})

route_resume(r, pc) == route_reqs' = (route_reqs (-) SetToBag({r})) (+) SetToBag({[r EXCEPT !.pc = pc]})

route_return(r) == route_reqs' = route_reqs (-) SetToBag({r})

(* share_credential up to the select: 400 for a stored credential that is  *)
(* not active; without a stored one, 404 or 400 from the mock data         *)
share_credential(credential_id) ==
    /\ BagCardinality(route_reqs) < MaxInFlight
    /\ Len(redis.share) + BagCardinality(route_reqs) < MaxShares
    /\ LET row == select_row(credentials, credential_id, get_mock_user_id)
           late == credential_id \in route_log
       IN  IF row # NoRow
           THEN IF credentials[row].status # ACTIVE
                THEN /\ route_last' = RouteResponse("share_credential", credential_id, 400, late)
                     /\ UNCHANGED route_reqs
                ELSE /\ route_suspend(RouteCall("share_credential", credential_id, row, "usage", credentials[row].usage_count, late))
                     /\ route_last' = NoRouteResponse
           ELSE IF credential_id \notin DOMAIN MOCK_CREDENTIALS
           THEN /\ route_last' = RouteResponse("share_credential", credential_id, 404, late)
                /\ UNCHANGED route_reqs
           ELSE IF MOCK_CREDENTIALS[credential_id] # ACTIVE
           THEN /\ route_last' = RouteResponse("share_credential", credential_id, 400, late)
                /\ UNCHANGED route_reqs
           ELSE /\ route_suspend(RouteCall("share_credential", credential_id, NoRow, "token", 0, late))
                /\ route_last' = NoRouteResponse
    /\ UNCHANGED <<credentials, connections, redis, route_log, not_route_vars>>

\* share_credential: the commit of usage_count += 1 on the row loaded
commit_usage(r) ==
    /\ r.pc = "usage"
    /\ credentials' = [credentials EXCEPT ![r.row].usage_count = r.loaded + 1]
    /\ route_resume(r, "token")
    /\ route_last' = NoRouteResponse
    /\ UNCHANGED <<connections, redis, route_log, not_route_vars>>

\* share_credential: create_share_token stores share:<share_id>
create_share_token(r) ==
    /\ r.pc = "token"
    /\ redis' = [redis EXCEPT !.share = Append(@, ShareToken(r.id, get_mock_user_id))]
    /\ route_return(r)
    /\ route_last' = RouteResponse("share_credential", r.id, 200, r.late)
    /\ UNCHANGED <<credentials, connections, route_log, not_route_vars>>

(* revoke_credential up to the select: without a stored credential,        *)
(* success for an id of the mock data and 404 otherwise                    *)
revoke_credential(credential_id) ==
    /\ BagCardinality(route_reqs) < MaxInFlight
    /\ LET row == select_row(credentials, credential_id, get_mock_user_id)
       IN  IF row # NoRow
           THEN /\ route_suspend(RouteCall("revoke_credential", credential_id, row, "revoke", 0, FALSE))
                /\ route_last' = NoRouteResponse
                /\ UNCHANGED route_log
           ELSE IF credential_id \in DOMAIN MOCK_CREDENTIALS
           THEN /\ route_last' = RouteResponse("revoke_credential", credential_id, 200, FALSE)
                /\ route_log' = route_log \cup {credential_id}
                /\ UNCHANGED route_reqs
           ELSE /\ route_last' = RouteResponse("revoke_credential", credential_id, 404, FALSE)
                /\ UNCHANGED <<route_reqs, route_log>>
    /\ UNCHANGED <<credentials, connections, redis, not_route_vars>>

\* revoke_credential: the commit of status = REVOKED
commit_revoked(r) ==
    /\ r.pc = "revoke"
    /\ credentials' = [credentials EXCEPT ![r.row].status = REVOKED]
    /\ route_return(r)
    /\ route_last' = RouteResponse("revoke_credential", r.id, 200, FALSE)
    /\ route_log' = route_log \cup {r.id}
    /\ UNCHANGED <<connections, redis, not_route_vars>>

\* credentials tables of up to MaxStored rows, nothing shared yet
CredentialStores ==
    UNION {[1..n -> {Credential(u, st, 0) : u \in {"u1", "u2"}, st \in CredentialStatus}] : n \in 0..MaxStored}

InitCredentials ==
    /\ sessions = << >>
    /\ reqs = EmptyBag
    /\ submitted = 0
    /\ forced = {}
    /\ last = NoResponse
    /\ scenario = NoScenario
    /\ trust = NoTrustScore
    /\ InitOtp
    /\ InitAuth
    /\ InitRoutes
    /\ connections = << >>
    /\ credentials \in CredentialStores

NextCredentials ==
    \/ \E id \in PathIds : share_credential(id)
    \/ \E r \in RouteCalls : commit_usage(r)
    \/ \E r \in RouteCalls : create_share_token(r)
    \/ \E id \in PathIds : revoke_credential(id)
    \/ \E r \in RouteCalls : commit_revoked(r)

SpecCredentials == InitCredentials /\ [][NextCredentials]_vars

----------------------------------------------------------------------------
(* The connection routes on a drawn connections table: approve_connection  *)
(* and deny_connection calls interleave at every await                     *)

(* approve_connection up to the select: 400 for a stored connection that   *)
(* is not pending; without a stored one, 200 for a pending connection of   *)
(* the mock data and 404 otherwise                                         *)
approve_connection(connection_id) ==
    /\ BagCardinality(route_reqs) < MaxInFlight
    /\ LET row == select_row(connections, connection_id, get_mock_user_id)
       IN  IF row # NoRow
           THEN IF connections[row].status # PENDING
                THEN /\ route_last' = RouteResponse("approve_connection", connection_id, 400, FALSE)
                     /\ UNCHANGED route_reqs
                ELSE /\ route_suspend(RouteCall("approve_connection", connection_id, row, "approve", 0, FALSE))
                     /\ route_last' = NoRouteResponse
           ELSE IF connection_id \in MOCK_PENDING_CONNECTIONS
           THEN /\ route_last' = RouteResponse("approve_connection", connection_id, 200, FALSE)
                /\ UNCHANGED route_reqs
           ELSE /\ route_last' = RouteResponse("approve_connection", connection_id, 404, FALSE)
                /\ UNCHANGED route_reqs
    /\ UNCHANGED <<credentials, connections, redis, route_log, not_route_vars>>

\* approve_connection: the commit of status = ACTIVE on the row loaded
commit_active(r) ==
    /\ r.pc = "approve"
    /\ connections' = [connections EXCEPT ![r.row].status = ACTIVE]
    /\ route_return(r)
    /\ route_last' = RouteResponse("approve_connection", r.id, 200, FALSE)
    /\ UNCHANGED <<credentials, redis, route_log, not_route_vars>>

(* deny_connection up to the select: without a stored connection, success  *)
(* for an id of the mock data and 404 otherwise                            *)
deny_connection(connection_id) ==
    /\ BagCardinality(route_reqs) < MaxInFlight
    /\ LET row == select_row(connections, connection_id, get_mock_user_id)
       IN  IF row # NoRow
           THEN /\ route_suspend(RouteCall("deny_connection", connection_id, row, "deny", 0, FALSE))
                /\ route_last' = NoRouteResponse
           ELSE IF connection_id \in MOCK_PENDING_CONNECTIONS \cup MOCK_ACTIVE_CONNECTIONS
           THEN /\ route_last' = RouteResponse("deny_connection", connection_id, 200, FALSE)
                /\ UNCHANGED route_reqs
           ELSE /\ route_last' = RouteResponse("deny_connection", connection_id, 404, FALSE)
                /\ UNCHANGED route_reqs
    /\ UNCHANGED <<credentials, connections, redis, route_log, not_route_vars>>

\* deny_connection: the commit of status = REVOKED
commit_denied(r) ==
    /\ r.pc = "deny"
    /\ connections' = [connections EXCEPT ![r.row].status = REVOKED]
    /\ route_return(r)
    /\ route_last' = RouteResponse("deny_connection", r.id, 200, FALSE)
    /\ UNCHANGED <<credentials, redis, route_log, not_route_vars>>

\* connections tables of up to MaxStored rows
ConnectionStores ==
    UNION {[1..n -> {Row(u, st) : u \in {"u1", "u2"}, st \in ConnectionStatus}] : n \in 0..MaxStored}

InitConnections ==
    /\ sessions = << >>
    /\ reqs = EmptyBag
    /\ submitted = 0
    /\ forced = {}
    /\ last = NoResponse
    /\ scenario = NoScenario
    /\ trust = NoTrustScore
    /\ InitOtp
    /\ InitAuth
    /\ InitRoutes
    /\ credentials = << >>
    /\ connections \in ConnectionStores

NextConnections ==
    \/ \E id \in PathIds : approve_connection(id)
    \/ \E r \in RouteCalls : commit_active(r)
    \/ \E id \in PathIds : deny_connection(id)
    \/ \E r \in RouteCalls : commit_denied(r)

SpecConnections == InitConnections /\ [][NextConnections]_vars

----------------------------------------------------------------------------
(* Properties *)

StepStatus(sid, n) == sessions[sid].steps[n].status

AnyStep(sid, st) == \E n \in DOMAIN sessions[sid].steps : StepStatus(sid, n) = st

AllSteps(sid, st) == \A n \in DOMAIN sessions[sid].steps : StepStatus(sid, n) = st

Returned(op) == last.op = op /\ last.result = "ok"

StepOps == {"submit_liveness", "submit_document", "connect_digilocker"}

\* the aggregate of section 4.2: Failed, else Completed, else InProgress,
\* else Pending
DerivedStatus(sid) ==
    IF AnyStep(sid, FAILED) THEN FAILED
    ELSE IF AllSteps(sid, COMPLETED) THEN COMPLETED
    ELSE IF AnyStep(sid, IN_PROGRESS) THEN IN_PROGRESS
    ELSE PENDING

\* C1: whenever no call is in flight, the status of every session that
\* submit_session has not forced equals the aggregate of its step statuses.
C1_StatusIsAggregate ==
    Quiescent =>
        \A sid \in DOMAIN sessions \ forced :
            sessions[sid].status = DerivedStatus(sid)

\* C2: after update_session_status, a session with at least one Failed step
\* has status Failed, whatever the other steps and the status before.
C2_FailedDominates ==
    Returned("update_session_status") /\ AnyStep(last.sid, FAILED)
        => sessions[last.sid].status = FAILED

C2_Witness ==
    /\ Returned("update_session_status")
    /\ AnyStep(1, FAILED) /\ AnyStep(1, COMPLETED) /\ AnyStep(1, IN_PROGRESS)
    /\ sessions[1].status = FAILED

\* C3: after update_session_status, a session whose steps are all Completed
\* has status Completed, whatever the status before.
C3_AllCompleted ==
    Returned("update_session_status") /\ AllSteps(last.sid, COMPLETED)
        => sessions[last.sid].status = COMPLETED

C3_Witness ==
    /\ Returned("update_session_status")
    /\ AllSteps(1, COMPLETED)
    /\ sessions[1].status = COMPLETED

\* C4: after update_session_status, a session with no Failed step, not all
\* steps Completed and at least one step InProgress has status InProgress,
\* whatever the status before.
C4_InProgress ==
    /\ Returned("update_session_status")
    /\ ~AnyStep(last.sid, FAILED)
    /\ ~AllSteps(last.sid, COMPLETED)
    /\ AnyStep(last.sid, IN_PROGRESS)
    => sessions[last.sid].status = IN_PROGRESS

C4_Witness ==
    /\ Returned("update_session_status")
    /\ ~AnyStep(1, FAILED)
    /\ AnyStep(1, COMPLETED) /\ AnyStep(1, PENDING) /\ AnyStep(1, IN_PROGRESS)
    /\ sessions[1].status = IN_PROGRESS

\* C5: the commit of update_session_status on a Pending session whose steps
\* are all Pending leaves the session Pending.
C5_AllPendingStays ==
    [][\A r \in Calls :
          /\ r.op = "update_session_status" /\ r.pc = "commit"
          /\ reqs' = reqs (-) SetToBag({r})
          /\ AllSteps(r.sid, PENDING)
          /\ sessions[r.sid].status = PENDING
          => sessions'[r.sid].status = PENDING]_vars

C5_Witness ==
    /\ Returned("update_session_status")
    /\ AllSteps(1, PENDING)
    /\ sessions[1].status = PENDING

\* C6: when submit_liveness returns on a session whose other steps are all
\* Pending, the Liveness step is Completed with score 95 and the session is
\* InProgress.
C6_LivenessFirst ==
    /\ Returned("submit_liveness")
    /\ \A n \in VerificationStepName \ {LIVENESS} : StepStatus(last.sid, n) = PENDING
    => /\ sessions[last.sid].steps[LIVENESS] = VerificationStep(COMPLETED, 95)
       /\ sessions[last.sid].status = IN_PROGRESS

\* C7: with one call at a time, when submit_document returns the Face Match
\* step is Completed with score 88 if both document steps are Completed, and
\* is still Pending without a score otherwise.
C7_FaceMatchAuto ==
    Returned("submit_document") =>
        LET steps == sessions[last.sid].steps
        IN  IF /\ steps[DOCUMENT_FRONT].status = COMPLETED
               /\ steps[DOCUMENT_BACK].status = COMPLETED
            THEN steps[FACE_MATCH] = VerificationStep(COMPLETED, 88)
            ELSE steps[FACE_MATCH] = VerificationStep(PENDING, NoScore)

C7_Witness ==
    /\ Returned("submit_document")
    /\ StepStatus(1, DOCUMENT_FRONT) = COMPLETED
    /\ StepStatus(1, DOCUMENT_BACK) = COMPLETED
    /\ sessions[1].steps[FACE_MATCH] = VerificationStep(COMPLETED, 88)

RequiredCompleted(sid) ==
    \A n \in {LIVENESS, DOCUMENT_FRONT, DOCUMENT_BACK, FACE_MATCH} :
        StepStatus(sid, n) = COMPLETED

\* C8: with one call at a time, submit_session by the owner of a session
\* never answers not found; when it returns, the session is Completed
\* exactly when Liveness, both documents and Face Match are Completed; and
\* when they are not, the step that answers changes no session and no step.
C8_SubmitSession ==
    /\ [](last.op = "submit_session" /\ last.sid \in DOMAIN sessions
            /\ sessions[last.sid].user_id = last.user_id
          => /\ last.result = "ok"
             /\ sessions[last.sid].status = COMPLETED <=> RequiredCompleted(last.sid))
    /\ [][last'.op = "submit_session" /\ last'.result = "ok"
            /\ ~RequiredCompleted(last'.sid)
          => sessions' = sessions]_vars

C8_Witness ==
    /\ Returned("submit_session")
    /\ sessions[1].user_id = last.user_id
    /\ RequiredCompleted(1)
    /\ StepStatus(1, DIGILOCKER) = PENDING
    /\ sessions[1].status = COMPLETED

\* C9: every stored session has exactly the five named steps, and the
\* session create_verification_session has just returned is Pending with
\* every step Pending and without a score.
C9_CreateAtomic ==
    /\ \A sid \in DOMAIN sessions :
          /\ DOMAIN sessions[sid].steps = VerificationStepName
          /\ Cardinality(DOMAIN sessions[sid].steps) = 5
    /\ Returned("create_verification_session") =>
          /\ sessions[last.sid].status = PENDING
          /\ \A n \in VerificationStepName :
                sessions[last.sid].steps[n] = VerificationStep(PENDING, NoScore)

C9_Witness ==
    /\ Returned("create_verification_session")
    /\ last.sid \in DOMAIN sessions
    /\ Cardinality(DOMAIN sessions[last.sid].steps) = 5

Owns(user_id, sid) == sid \in DOMAIN sessions /\ sessions[sid].user_id = user_id

\* C10: a step submission or submit_session whose caller does not own the
\* session named (or that names no stored session) answers not found and
\* never runs: no such call is in flight and none returns the session.
C10_NotFoundUnlessOwner ==
    /\ \A r \in Calls :
          r.op \in StepOps \cup {"submit_session"} => Owns(r.user_id, r.sid)
    /\ last.op \in StepOps \cup {"submit_session"} /\ ~Owns(last.user_id, last.sid)
          => last.result = "not_found"

\* C11: when the second of two equal step submissions made in a row returns,
\* every step status, every step score and the session status are what they
\* were when the first returned.
C11_ResubmitIdempotent ==
    scenario.phase = "second" /\ Quiescent => sessions = scenario.after

C11_Witness ==
    /\ scenario.phase = "second" /\ Quiescent
    /\ Returned("submit_document")
    /\ sessions = scenario.after
    /\ sessions[1].steps[FACE_MATCH] = VerificationStep(COMPLETED, 88)
    /\ sessions[1].status = COMPLETED

C14_Monotone ==
    trust.status = 200 =>
        \A v \in SubScores :
            /\ v >= trust.breakdown.identity =>
                  weighted_total(v, trust.breakdown.activity,
                                 trust.breakdown.reputation) >= trust.score
            /\ v >= trust.breakdown.activity =>
                  weighted_total(trust.breakdown.identity, v,
                                 trust.breakdown.reputation) >= trust.score
            /\ v >= trust.breakdown.reputation =>
                  weighted_total(trust.breakdown.identity,
                                 trust.breakdown.activity, v) >= trust.score

C14_Witness ==
    /\ trust.status = 200
    /\ trust.breakdown = TrustScoreBreakdown(0, 1, 9)
    /\ trust.score = 2
    /\ weighted_total(0, 1, 10) = 3
    /\ weighted_total(0, 2, 9) = 3

Computed == trust.status = 200 /\ ~trust.raised

\* some Completed session of the user has a Completed step among `names`
HasCompletedStep(user_id, names) ==
    \E sid \in DOMAIN sessions :
        /\ sessions[sid].user_id = user_id
        /\ sessions[sid].status = COMPLETED
        /\ \E n \in names : sessions[sid].steps[n].status = COMPLETED

Points(flag, points) == IF flag THEN points ELSE 0

Missing(flag, suggestion) == IF flag THEN << >> ELSE <<suggestion>>

CountRows(table, user_id, statuses) ==
    Cardinality({i \in DOMAIN table :
                    table[i].user_id = user_id /\ table[i].status \in statuses})

\* C16: the activity sub-score is min(100, min(30, 10*s) + min(40, 10*c) +
\* min(30, 10*k)) for s sessions of the user, c Active connections and k
\* credentials; it is in 0..100, and s<3, c<4, k<3 each append a suggestion.
C16_ActivityScore ==
    Computed =>
        LET s == CountRows(sessions, "u1", VerificationStatus)
            c == CountRows(connections, "u1", {ACTIVE})
            k == CountRows(credentials, "u1", CredentialStatus)
        IN  /\ trust.activity.score =
                  min(100, min(30, 10 * s) + min(40, 10 * c) + min(30, 10 * k))
            /\ trust.activity.score \in 0..100
            /\ trust.breakdown.activity = trust.activity.score
            /\ trust.activity.suggestions =
                  Missing(s >= 3, SuggestVerifications)
                  \o Missing(c >= 4, SuggestConnections)
                  \o Missing(k >= 3, SuggestCredentials)

\* two sessions, three active connections beside a revoked one, one expired
\* credential
C16_Witness ==
    /\ Computed
    /\ CountRows(sessions, "u1", VerificationStatus) = 2
    /\ CountRows(connections, "u1", {ACTIVE}) = 3
    /\ CountRows(connections, "u1", {REVOKED}) = 1
    /\ CountRows(credentials, "u1", {EXPIRED}) = 1
    /\ CountRows(credentials, "u2", CredentialStatus) = 1
    /\ trust.activity = Scored(60, <<SuggestVerifications, SuggestConnections,
                                    SuggestCredentials>>)

\* C17: the reputation sub-score is 100 for every user and every store.
C17_ReputationFixed ==
    /\ \A u \in UserIds : calculate_reputation_score(u).score = 100
    /\ Computed => trust.reputation.score = 100 /\ trust.breakdown.reputation = 100

C17_Witness ==
    /\ Computed
    /\ Len(sessions) > 0 /\ Len(connections) > 0 /\ Len(credentials) > 0
    /\ trust.breakdown.identity = 100
    /\ trust.breakdown.reputation = 100

\* C18: the suggestions returned are the first three entries of the identity,
\* activity and reputation suggestions put end to end, all of them when there
\* are fewer than three; they are never more than 3.
C18_TopThree ==
    Computed =>
        LET all == trust.identity.suggestions \o trust.activity.suggestions
                   \o trust.reputation.suggestions
        IN  /\ Len(trust.suggestions) <= 3
            /\ trust.suggestions =
                  IF Len(all) < 3 THEN all ELSE <<all[1], all[2], all[3]>>

\* one identity and one activity suggestion before the reputation's two
C18_Witness ==
    /\ Computed
    /\ trust.identity.suggestions = <<SuggestDocument>>
    /\ trust.activity.suggestions = <<SuggestVerifications,
                                      SuggestConnections, SuggestCredentials>>
    /\ trust.suggestions = <<SuggestDocument, SuggestVerifications,
                             SuggestConnections>>

\* C19: when the calculation raises, the endpoint answers 200 with the fixed
\* result: score 78, breakdown 85 / 70 / 80 and the three fixed suggestions.
C19_FallbackOnFailure ==
    trust.raised =>
        /\ trust.status = 200
        /\ trust.score = 78
        /\ trust.breakdown = TrustScoreBreakdown(85, 70, 80)
        /\ trust.suggestions =
              <<"Complete DigiLocker verification to boost identity score",
                "Connect more platforms to improve activity score",
                "Request endorsements from verified connections">>

C19_Witness ==
    /\ trust.raised
    /\ trust.status = 200
    /\ trust.score = 78
    /\ Len(sessions) > 0

\* C20: every OTP stored by request_otp passes at most one verify_otp, under
\* every interleaving of verify_otp calls, and a verify_otp that answers
\* false leaves the stored OTP as it is.
C20_OneTime ==
    /\ [](\A g \in 1..Len(otp_log.accepted) : otp_log.accepted[g] <= 1)
    /\ [][otp_last'.op = "verify_otp" /\ otp_last'.result = "False"
            => redis' = redis]_vars

\* C21: a session whose status is Completed keeps that status in every step,
\* whatever calls are made on it and however they interleave.
C21_CompletedIsFinal ==
    [][\A s \in DOMAIN sessions :
          sessions[s].status = COMPLETED => sessions'[s].status = COMPLETED]_vars

\* C22: in every state with no call in flight, a session whose status is
\* Completed has Liveness, Document (Front), Document (Back) and Face Match
\* all Completed.
C22_CompletedHasRequired ==
    Quiescent =>
        \A s \in DOMAIN sessions :
            sessions[s].status = COMPLETED => RequiredCompleted(s)

\* a session completed by submit_session without DigiLocker, still Completed
\* after its liveness check has been submitted again
C22_Witness ==
    /\ Quiescent
    /\ Returned("submit_liveness")
    /\ 1 \in DOMAIN sessions
    /\ sessions[1].status = COMPLETED
    /\ RequiredCompleted(1)
    /\ StepStatus(1, DIGILOCKER) = PENDING

\* C23: in every state with no call in flight, the identity sub-score
\* calculate_identity_score gives for any user is 0 or 100, never one of the
\* partial values 13, 37, 50, 63, 87.
C23_IdentityAllOrNothing ==
    Quiescent =>
        \A u \in UserIds : calculate_identity_score(sessions, u).score \in {0, 100}

\* the owner of a session completed by submit_session scores 100, another
\* user 0
C23_Witness ==
    /\ Quiescent
    /\ Returned("submit_session")
    /\ 1 \in DOMAIN sessions
    /\ sessions[1].status = COMPLETED
    /\ calculate_identity_score(sessions, "u1").score = 100
    /\ calculate_identity_score(sessions, "u2").score = 0
    /\ calculate_identity_score(sessions, "u1").suggestions = << >>

\* C24: no step and no session is ever Failed: every step status is Pending,
\* InProgress or Completed, under every interleaving of the calls.
C24_NeverFailed ==
    \A s \in DOMAIN sessions :
        /\ sessions[s].status # FAILED
        /\ \A n \in DOMAIN sessions[s].steps :
              StepStatus(s, n) \in {PENDING, IN_PROGRESS, COMPLETED}

\* two submissions in flight on a session whose Face Match has been
\* auto-completed: the three statuses side by side
C24_Witness ==
    /\ 1 \in DOMAIN sessions
    /\ BagCardinality(reqs) = 2
    /\ StepStatus(1, FACE_MATCH) = COMPLETED
    /\ StepStatus(1, LIVENESS) = IN_PROGRESS
    /\ StepStatus(1, DIGILOCKER) = PENDING
    /\ sessions[1].status = IN_PROGRESS

\* C25: in every response of the trust-score endpoint, computed or fallback,
\* the score is floor((4*identity + 3*activity + 3*reputation) / 10) of the
\* breakdown of the same response.
C25_ResponseConsistent ==
    trust.status = 200 =>
        trust.score = (4 * trust.breakdown.identity + 3 * trust.breakdown.activity
                       + 3 * trust.breakdown.reputation) \div 10

\* C26: a refresh token is redeemed at most once, under every interleaving
\* of refresh_tokens calls: a refresh that succeeds leaves the jti presented
\* revoked and returns a refresh token with a fresh, unrevoked jti, and no
\* jti has more than one successful refresh.
C26_RedeemedOnce ==
    /\ \A j \in DOMAIN auth_log : auth_log[j] <= 1
    /\ auth_last.op = "refresh_tokens" =>
          \/ auth_last.status = 401
          \/ /\ auth_last.status = 200
             /\ tokens[auth_last.presented].revoked
             /\ auth_last.jti = Len(tokens)
             /\ auth_last.jti # auth_last.presented
             /\ ~tokens[auth_last.jti].revoked
             /\ auth_log[auth_last.jti] = 0

\* C27: for every identifier the rate counter lets at most RateLimit (5)
\* requests pass between its creation and its expiry, under every
\* interleaving of request_otp calls; and a request_otp that is refused
\* leaves the stored OTPs as they are.
C27_RateLimited ==
    /\ [](\A i \in Identifiers : otp_log.granted[i] <= RateLimit)
    /\ [][otp_last'.op = "request_otp" /\ otp_last'.result = "None"
            => redis'.otp = redis.otp]_vars

\* C28: every rate counter that exists has an expiry, also when the key
\* expires between the GET and the INCR of check_rate_limit.
C28_CounterExpires ==
    \A i \in Identifiers :
        redis.rate[i] # NoCounter => redis.rate[i].ttl

\* the status share_credential finds for an id: the stored row's, else the
\* mock data's
SharedStatus(id) ==
    LET row == select_row(credentials, id, get_mock_user_id)
    IN  IF row # NoRow THEN credentials[row].status
        ELSE IF id \in DOMAIN MOCK_CREDENTIALS THEN MOCK_CREDENTIALS[id]
        ELSE "none"

\* C29: once revoke_credential has answered success for an id, every later
\* share_credential on that id answers 400, stores no share token and leaves
\* the usage counts alone; and a share token is stored only for a credential
\* that is active.
C29_NoShareAfterRevoke ==
    /\ [](route_last.op = "share_credential" /\ route_last.late
            => route_last.status = 400)
    /\ [][route_last'.op = "share_credential" /\ route_last'.late
            => redis'.share = redis.share /\ credentials' = credentials]_vars
    /\ [][redis'.share # redis.share
            => SharedStatus(route_last'.id) = ACTIVE]_vars

\* C30: a stored connection changes status only from pending to active or
\* to revoked; approve_connection on a stored connection that is not
\* pending answers 400 and changes nothing; a revoked connection never
\* becomes active again.
C30_ConnectionLifecycle ==
    /\ [][\A i \in DOMAIN connections :
            connections'[i].status # connections[i].status
            => \/ connections[i].status = PENDING /\ connections'[i].status = ACTIVE
               \/ connections'[i].status = REVOKED]_vars
    /\ [][route_last'.op = "approve_connection" /\ route_last'.status = 400
            => connections' = connections]_vars
    /\ [][\A i \in DOMAIN connections :
            connections[i].status = REVOKED => connections'[i].status # ACTIVE]_vars

====
